---- MODULE Spec2Model ----
(***************************************************************************)
(* Model of pensieve's RecordReader (record_reader.cpp): the decoder of    *)
(* the binary allocation trace.  One decoder instance reads one stream;    *)
(* nextAllocationRecord loops over the records until it meets an           *)
(* ALLOCATION record, the end of the stream, or a failure.                 *)
(*                                                                         *)
(* The stream is produced lazily: every read of the source draws the next  *)
(* record from the record alphabet below, or hits the end of the stream.   *)
(* FrameTree, FrameCollection, SymbolResolver and Source are declared in   *)
(* headers that record_reader.cpp includes; they are modelled from the     *)
(* design document.                                                        *)
(***************************************************************************)
EXTENDS Integers, Sequences, FiniteSets, TLC

\* ------------------------------------------------------------ bounds
\* Records the source can deliver before it is exhausted.
MaxRecords == 3
\* Records of a stream of FRAME and ALLOCATION records of one thread.
MaxStackRecords == 7
\* Largest segment count of a SEGMENT_HEADER record.
MaxSegments == 1
\* Largest max_stacks handed to Py_GetStackFrame and Py_GetNativeStackFrame.
MaxDepth == 2
\* Records of a stream of native-trace, memory-map and allocation records.
MaxNativeRecords == 3
\* Records that follow the header of a file read from its first byte.
MaxHeaderRecords == 2
\* Records that follow the frame definitions and first pushes of two threads.
MaxPreciseRecords == 3

\* ------------------------------------------------------------ alphabet
Threads == {1, 2}
FrameIds == {1, 2}
Lines == {41, 42}
SegmentValues == {1, 2}
IPs == {7}

\* lineno of a Frame read by parseFrameIndex: the field is not in the record
\* and keeps the value of the value-initialised pair.
NoLine == 0
\* current_lineno before the first frame of a walk.
StartLine == -1
\* Identifiers minted for line-corrected frames are apart from the stream's.
FirstPreciseId == 101
\* SymbolResolver's generation before any MEMORY_MAP_START.
InitialGeneration == 0
\* A value-initialised Segment, as std::vector<Segment>(n) holds.
ZeroSegment == 0

\* (function_name, filename, parent_lineno) payloads of FRAME_INDEX records.
FooContent == [function_name |-> "foo", filename |-> "a.py", parent_lineno |-> 0]
BarContent == [function_name |-> "bar", filename |-> "b.py", parent_lineno |-> 3]
FrameContents == {FooContent, BarContent}

\* The Frame parseFrameIndex stores for a FRAME_INDEX payload.
indexedFrame(content) ==
    [function_name |-> content.function_name, filename |-> content.filename,
     parent_lineno |-> content.parent_lineno, lineno |-> NoLine]

NativeLinks == {0, 1}

VARIABLES
    pc,               \* position of the caller / of nextAllocationRecord
    result,           \* outcome of the last nextAllocationRecord call
    eof,              \* d_input: the source has signalled IoError
    stream,           \* d_input: the records delivered so far, in order
    capacity,         \* d_input: records the source holds
    streamThreads,    \* d_input: thread ids the stream's records name
    d_stack_traces,   \* thread id -> stack of frame ids (lazily created)
    d_frame_map,      \* frame id -> Frame
    d_allocation_frames, \* Frame -> precise frame id
    d_tree,           \* FrameTree: sequence of (frame_id, parent_index)
    d_native_frames,  \* sequence of (ip, index)
    d_symbol_resolver,\* generation and the addSegments calls per generation
    returned,         \* the Allocation values handed to the caller so far
    lastWalk,         \* the latest Py_GetStackFrame call and what it gave
    lastNativeWalk,   \* the latest Py_GetNativeStackFrame call and what it gave
    d_header          \* the HeaderRecord read by the constructor

decoderVars == <<d_stack_traces, d_frame_map, d_allocation_frames, d_tree,
                 d_native_frames, d_symbol_resolver, eof, stream, capacity,
                 streamThreads, d_header>>
vars == <<pc, result, eof, stream, capacity, streamThreads, d_stack_traces,
          d_frame_map, d_allocation_frames, d_tree, d_native_frames,
          d_symbol_resolver, returned, lastWalk, lastNativeWalk, d_header>>

NoRecord == [type |-> "NONE"]
NoWalk == [index |-> 0, max_stacks |-> 0, list |-> <<>>, called |-> FALSE]
NoNativeWalk ==
    [index |-> 0, generation |-> 0, max_stacks |-> 0, list |-> <<>>,
     steps |-> 0, called |-> FALSE]

\* MAGIC and CURRENT_HEADER_VERSION, and the header of a well-formed file.
MAGIC == "pensieve"
CURRENT_HEADER_VERSION == 1
ValidHeader ==
    [magic |-> MAGIC, version |-> CURRENT_HEADER_VERSION, native_traces |-> TRUE,
     stats |-> "stats", command_line |-> "python app.py"]

\* ------------------------------------------------------------ helpers
Last(s) == s[Len(s)]
Front(s) == SubSeq(s, 1, Len(s) - 1)

\* ------------------------------------------------------- FrameCollection
\* d_allocation_frames.getIndex(frame): the identifier registered for this
\* content, or a newly minted one.
getIndex(aframes, frame) ==
    IF frame \in DOMAIN aframes
    THEN [index |-> aframes[frame], is_new |-> FALSE, aframes |-> aframes]
    ELSE LET id == FirstPreciseId + Cardinality(DOMAIN aframes)
         IN [index |-> id, is_new |-> TRUE,
             aframes |-> [f \in DOMAIN aframes \cup {frame} |->
                            IF f = frame THEN id ELSE aframes[f]]]

\* ------------------------------------------------------------ FrameTree
\* The child of node `parent` labelled `frame_id`, or 0.
childOf(tree, parent, frame_id) ==
    LET hits == {i \in 1..Len(tree) :
                    tree[i].frame_id = frame_id /\ tree[i].parent_index = parent}
    IN IF hits = {} THEN 0 ELSE CHOOSE i \in hits : TRUE

RECURSIVE getTraceIndexFrom(_, _, _)
getTraceIndexFrom(tree, index, stack) ==
    IF stack = <<>> THEN [tree |-> tree, index |-> index]
    ELSE LET c == childOf(tree, index, Head(stack))
         IN IF c # 0
            THEN getTraceIndexFrom(tree, c, Tail(stack))
            ELSE getTraceIndexFrom(
                     Append(tree, [frame_id |-> Head(stack), parent_index |-> index]),
                     Len(tree) + 1, Tail(stack))

\* d_tree.getTraceIndex(stack): walk from the bottom of the stack, following
\* or creating child links; the empty stack gives 0.
getTraceIndex(tree, stack) == getTraceIndexFrom(tree, 0, stack)

\* d_tree.nextNode(index)
nextNode(tree, index) == tree[index]

\* ------------------------------------------------------- SymbolResolver
\* clearSegments(): a new generation with no segments registered yet.
clearSegments(resolver) ==
    [generation |-> resolver.generation + 1,
     segments |-> [g \in DOMAIN resolver.segments \cup {resolver.generation + 1} |->
                     IF g = resolver.generation + 1 THEN <<>>
                     ELSE resolver.segments[g]]]

\* addSegments(filename, addr, segments): one module's segments, registered
\* under the current generation.
addSegments(resolver, filename, addr, segments) ==
    [resolver EXCEPT !.segments[resolver.generation] =
        Append(@, [filename |-> filename, addr |-> addr, segments |-> segments])]

currentSegmentGeneration(resolver) == resolver.generation

\* The region of a Segment, relative to its module's base address: the
\* value-initialised Segment is empty, Segment s is the one address 5 + s.
segmentStart(segment) == IF segment = ZeroSegment THEN 0 ELSE 5 + segment
segmentSize(segment) == IF segment = ZeroSegment THEN 0 ELSE 1

segmentCovers(addr, segment, ip) ==
    /\ addr + segmentStart(segment) <= ip
    /\ ip < addr + segmentStart(segment) + segmentSize(segment)

NotResolved == [resolved |-> FALSE, frames |-> <<>>]

\* resolve(ip, generation): the frames of the modules registered under
\* `generation` that have a segment covering ip, in registration order;
\* nothing when no segment of that generation covers ip.
resolve(resolver, ip, generation) ==
    IF generation \notin DOMAIN resolver.segments
    THEN NotResolved
    ELSE LET covers(module) ==
                 \E k \in 1..Len(module.segments) :
                     segmentCovers(module.addr, module.segments[k], ip)
             hits == SelectSeq(resolver.segments[generation], covers)
         IN IF hits = <<>>
            THEN NotResolved
            ELSE [resolved |-> TRUE,
                  frames |-> [i \in 1..Len(hits) |->
                                [filename |-> hits[i].filename,
                                 offset |-> ip - hits[i].addr]]]

\* ------------------------------------------------------------ Init
Init ==
    /\ pc = "idle"
    /\ result = "none"
    /\ eof = FALSE
    /\ stream = <<>>
    /\ capacity = MaxRecords
    /\ streamThreads = Threads
    /\ d_stack_traces = [t \in {} |-> <<>>]
    /\ d_frame_map = [i \in {} |-> NoRecord]
    /\ d_allocation_frames = [f \in {} |-> 0]
    /\ d_tree = <<>>
    /\ d_native_frames = <<>>
    /\ d_symbol_resolver =
          [generation |-> InitialGeneration,
           segments |-> [g \in {InitialGeneration} |-> <<>>]]
    /\ returned = <<>>
    /\ lastWalk = NoWalk
    /\ lastNativeWalk = NoNativeWalk
    /\ d_header = ValidHeader

\* ------------------------------------------------- frame table
\* operator[]-style assignment: the later definition replaces the earlier.
insertFrameOverwrites(frame_map, frame_id, frame) ==
    [inserted |-> TRUE,
     frame_map |-> [i \in DOMAIN frame_map \cup {frame_id} |->
                      IF i = frame_id THEN frame ELSE frame_map[i]]]

\* d_frame_map.insert(pyframe_val): an identifier already present keeps its
\* Frame and the insertion reports failure.
insertFrame(frame_map, frame_id, frame) ==
    IF frame_id \in DOMAIN frame_map
    THEN [inserted |-> FALSE, frame_map |-> frame_map]
    ELSE [inserted |-> TRUE,
          frame_map |-> [i \in DOMAIN frame_map \cup {frame_id} |->
                           IF i = frame_id THEN frame ELSE frame_map[i]]]

\* ------------------------------------------------- line correction
\* A correction applied to a copy of the stack leaves the thread's stack alone.
rewriteTopOfCopy(stack, allocation_index) == stack

\* stack.back() = allocation_index, on the thread's own stack (stack_t&).
rewriteTop(stack, allocation_index) ==
    [stack EXCEPT ![Len(stack)] = allocation_index]

\* The outcome of a correction that returns early or throws.
unchangedByCorrection(stack, ok) ==
    [ok |-> ok, stack |-> stack, frame_map |-> d_frame_map,
     allocation_frames |-> d_allocation_frames]

\* The corrected frame assigned to the top's own identifier.
correctTopUpdatesPartial(stack, lineno) ==
    IF Last(stack) \notin DOMAIN d_frame_map
    THEN unchangedByCorrection(stack, FALSE)
    ELSE LET partial_frame == d_frame_map[Last(stack)]
             allocation_frame ==
                 [function_name |-> partial_frame.function_name,
                  filename |-> partial_frame.filename,
                  parent_lineno |-> partial_frame.parent_lineno,
                  lineno |-> lineno]
             got == getIndex(d_allocation_frames, allocation_frame)
         IN [ok |-> TRUE,
             stack |-> stack,
             frame_map |-> [d_frame_map EXCEPT ![Last(stack)] = allocation_frame],
             allocation_frames |-> got.aframes]

\* The partial frame looked up again under its own line.
correctTopKeepsLine(stack, lineno) ==
    IF Last(stack) \notin DOMAIN d_frame_map
    THEN unchangedByCorrection(stack, FALSE)
    ELSE LET partial_frame == d_frame_map[Last(stack)]
             allocation_frame == partial_frame
             got == getIndex(d_allocation_frames, allocation_frame)
             fmap == IF got.is_new
                     THEN insertFrame(d_frame_map, got.index, allocation_frame).frame_map
                     ELSE d_frame_map
         IN [ok |-> TRUE,
             stack |-> rewriteTop(stack, got.index),
             frame_map |-> fmap,
             allocation_frames |-> got.aframes]

\* The last two initialisers of allocation_frame in the other order.
correctTopSwapsLines(stack, lineno) ==
    IF Last(stack) \notin DOMAIN d_frame_map
    THEN unchangedByCorrection(stack, FALSE)
    ELSE LET partial_frame == d_frame_map[Last(stack)]
             allocation_frame ==
                 [function_name |-> partial_frame.function_name,
                  filename |-> partial_frame.filename,
                  parent_lineno |-> lineno,
                  lineno |-> partial_frame.parent_lineno]
             got == getIndex(d_allocation_frames, allocation_frame)
             fmap == IF got.is_new
                     THEN insertFrame(d_frame_map, got.index, allocation_frame).frame_map
                     ELSE d_frame_map
         IN [ok |-> TRUE,
             stack |-> rewriteTop(stack, got.index),
             frame_map |-> fmap,
             allocation_frames |-> got.aframes]

\* The body of correctAllocationFrame for a non-empty stack: the top of the
\* stack is replaced by the identifier of the frame with the allocation's
\* line filled in.  d_frame_map.at throws std::out_of_range for an undefined
\* identifier.
correctTop(stack, lineno) ==
    IF Last(stack) \notin DOMAIN d_frame_map
    THEN unchangedByCorrection(stack, FALSE)
    ELSE LET partial_frame == d_frame_map[Last(stack)]
             allocation_frame ==
                 [function_name |-> partial_frame.function_name,
                  filename |-> partial_frame.filename,
                  parent_lineno |-> partial_frame.parent_lineno,
                  lineno |-> lineno]
             got == getIndex(d_allocation_frames, allocation_frame)
             \* emplace: an identifier already present keeps its Frame
             fmap == IF got.is_new
                     THEN insertFrame(d_frame_map, got.index, allocation_frame).frame_map
                     ELSE d_frame_map
         IN [ok |-> TRUE,
             stack |-> rewriteTop(stack, got.index),
             frame_map |-> fmap,
             allocation_frames |-> got.aframes]

\* Without the early return, back() is applied to an empty stack.
correctAllocationFrameUnchecked(stack, lineno) ==
    IF stack = <<>>
    THEN unchangedByCorrection(stack, FALSE)
    ELSE correctTop(stack, lineno)

\* The own line filled into the partial frame itself instead of a new frame.
correctAllocationFrameInPlace(stack, lineno) ==
    IF stack = <<>> \/ Last(stack) \notin DOMAIN d_frame_map
    THEN unchangedByCorrection(stack, stack = <<>>)
    ELSE [ok |-> TRUE, stack |-> stack,
          frame_map |-> [d_frame_map EXCEPT ![Last(stack)].lineno = lineno],
          allocation_frames |-> d_allocation_frames]

\* correctAllocationFrame(stack, lineno)
correctAllocationFrame(stack, lineno) ==
    IF stack = <<>>
    THEN unchangedByCorrection(stack, TRUE)
    ELSE correctTop(stack, lineno)

\* The trace index taken before the correction is applied.
getAllocationFrameIndexStale(record) ==
    IF record.tid \notin DOMAIN d_stack_traces
    THEN [ok |-> TRUE, index |-> 0, stack_traces |-> d_stack_traces,
          frame_map |-> d_frame_map, allocation_frames |-> d_allocation_frames,
          tree |-> d_tree]
    ELSE LET c == correctAllocationFrame(d_stack_traces[record.tid], record.py_lineno)
             t == getTraceIndex(d_tree, d_stack_traces[record.tid])
         IN [ok |-> c.ok, index |-> t.index,
             stack_traces |-> [d_stack_traces EXCEPT ![record.tid] = c.stack],
             frame_map |-> c.frame_map,
             allocation_frames |-> c.allocation_frames,
             tree |-> IF c.ok THEN t.tree ELSE d_tree]

\* getAllocationFrameIndex(record): 0 for a thread without a stack entry,
\* else the tree index of the thread's (corrected) stack.
getAllocationFrameIndex(record) ==
    IF record.tid \notin DOMAIN d_stack_traces
    THEN [ok |-> TRUE, index |-> 0, stack_traces |-> d_stack_traces,
          frame_map |-> d_frame_map, allocation_frames |-> d_allocation_frames,
          tree |-> d_tree]
    ELSE LET c == correctAllocationFrame(d_stack_traces[record.tid], record.py_lineno)
             t == getTraceIndex(d_tree, c.stack)
         IN IF ~c.ok
            THEN [ok |-> FALSE, index |-> 0, stack_traces |-> d_stack_traces,
                  frame_map |-> d_frame_map,
                  allocation_frames |-> d_allocation_frames, tree |-> d_tree]
            ELSE [ok |-> TRUE, index |-> t.index,
                  stack_traces |-> [d_stack_traces EXCEPT ![record.tid] = c.stack],
                  frame_map |-> c.frame_map,
                  allocation_frames |-> c.allocation_frames,
                  tree |-> t.tree]

\* ------------------------------------------------------------ read side
\* frame.toPythonObject(d_pystring_cache, current_lineno): what is handed to
\* the host-object conversion for one step of the walk.
toPythonObject(frame, current_lineno) ==
    [frame |-> frame, current_lineno |-> current_lineno]

RECURSIVE walkPythonStack(_, _, _, _, _)
walkPythonStack(current_index, stacks_obtained, max_stacks, current_lineno, list) ==
    IF current_index # 0 /\ stacks_obtained # max_stacks
    THEN LET node == nextNode(d_tree, current_index)
         IN IF node.frame_id \notin DOMAIN d_frame_map
            THEN [error |-> "OutOfRange", frames |-> list]
            ELSE LET frame == d_frame_map[node.frame_id]
                 IN walkPythonStack(node.parent_index, stacks_obtained + 1,
                        max_stacks, frame.parent_lineno,
                        Append(list, toPythonObject(frame, current_lineno)))
    ELSE [error |-> "none", frames |-> list]

\* Py_GetStackFrame(index, max_stacks): the list built by the walk.
PyStackFrames(index, max_stacks) ==
    walkPythonStack(index, 0, max_stacks, StartLine, <<>>)

\* d_native_frames[i]: the vector is indexed from 0.
nativeAt(native_frames, i) == native_frames[i + 1]

\* The loop of Py_GetNativeStackFrame: one chain entry per step, each step
\* adding the frames its instruction pointer resolves to, if any.
RECURSIVE walkNativeStack(_, _, _, _, _)
walkNativeStack(current_index, stacks_obtained, max_stacks, generation, list) ==
    IF current_index # 0 /\ stacks_obtained # max_stacks
    THEN LET frame == nativeAt(d_native_frames, current_index - 1)
             resolved_frames == resolve(d_symbol_resolver, frame.ip, generation)
         IN walkNativeStack(frame.index, stacks_obtained + 1, max_stacks,
                generation,
                IF resolved_frames.resolved
                THEN list \o resolved_frames.frames
                ELSE list)
    ELSE [steps |-> stacks_obtained, frames |-> list]

\* The chain resolved against the segments of the current generation.
PyNativeStackFramesCurrent(index, generation, max_stacks) ==
    walkNativeStack(index, 0, max_stacks,
                    currentSegmentGeneration(d_symbol_resolver), <<>>)

\* The bound tested with <=: one step more than max_stacks.
PyNativeStackFramesOneMore(index, generation, max_stacks) ==
    walkNativeStack(index, 0, max_stacks + 1, generation, <<>>)

\* Py_GetNativeStackFrame(index, generation, max_stacks): the list built by
\* the walk, and the steps it took.
PyNativeStackFrames(index, generation, max_stacks) ==
    walkNativeStack(index, 0, max_stacks, generation, <<>>)

\* ------------------------------------------------------------ actions
\* The caller enters nextAllocationRecord.
nextAllocationRecord ==
    /\ pc = "idle"
    /\ pc' = "loop"
    /\ result' = "none"
    /\ lastWalk' = NoWalk
    /\ lastNativeWalk' = NoNativeWalk
    /\ UNCHANGED <<decoderVars, returned>>

\* The source still has a whole record to deliver.
canRead == pc = "loop" /\ ~eof /\ Len(stream) < capacity

\* A read of the wrong width leaves the line field zero.
parseAllocationRecordShort(payload) ==
    [tid |-> payload.tid, py_lineno |-> 0]

\* parseAllocationRecord(): the AllocationRecord read from the payload bytes.
parseAllocationRecord(payload) ==
    [tid |-> payload.tid, py_lineno |-> payload.py_lineno]

\* case RecordType::ALLOCATION
caseAllocation ==
    /\ canRead
    /\ \E payload \in [tid : streamThreads, py_lineno : Lines] :
         LET record == parseAllocationRecord(payload)
             r == getAllocationFrameIndex(record)
         IN /\ stream' = Append(stream, [type |-> "ALLOCATION", record |-> payload])
            /\ IF r.ok
               THEN /\ d_stack_traces' = r.stack_traces
                    /\ d_frame_map' = r.frame_map
                    /\ d_allocation_frames' = r.allocation_frames
                    /\ d_tree' = r.tree
                    /\ returned' = Append(returned,
                          [record |-> record,
                           frame_index |-> r.index,
                           native_segment_generation |->
                               currentSegmentGeneration(d_symbol_resolver)])
                    /\ pc' = "idle"
                    /\ result' = "allocation"
               ELSE /\ pc' = "failed"
                    /\ result' = "OutOfRange"
                    /\ UNCHANGED <<d_stack_traces, d_frame_map,
                                   d_allocation_frames, d_tree, returned>>
    /\ UNCHANGED <<eof, capacity, streamThreads, d_native_frames, d_symbol_resolver, lastWalk, lastNativeWalk, d_header>>

\* d_stack_traces[tid]: operator[] creates the thread's stack on first use.
stackOf(tid) ==
    IF tid \in DOMAIN d_stack_traces THEN d_stack_traces[tid] ELSE <<>>

withStack(tid, stack) ==
    [t \in DOMAIN d_stack_traces \cup {tid} |->
        IF t = tid THEN stack ELSE d_stack_traces[t]]

\* case PUSH of parseFrame
parseFramePush ==
    /\ canRead
    /\ \E tid \in streamThreads, frame_id \in FrameIds :
         /\ d_stack_traces' = withStack(tid, Append(stackOf(tid), frame_id))
         /\ stream' = Append(stream, [type |-> "FRAME", action |-> "PUSH", tid |-> tid,
                           frame_id |-> frame_id])
    /\ UNCHANGED <<pc, result, eof, capacity, streamThreads, d_frame_map, d_allocation_frames, d_tree,
                   d_native_frames, d_symbol_resolver, returned,
                   lastWalk, lastNativeWalk, d_header>>

\* The oldest frame removed instead of the newest.
popFront(stack) == Tail(stack)

\* d_stack_traces[tid].pop_back()
popBack(stack) == Front(stack)

\* What pop_back() leaves of an empty vector: undefined behaviour.
UndefinedStacks == {<<>>} \cup {<<f>> : f \in FrameIds}

\* case POP of parseFrame.  On an empty stack the assert aborts the process;
\* a build with NDEBUG runs pop_back() on the empty vector.
parseFramePop ==
    /\ canRead
    /\ \E tid \in streamThreads :
         /\ stream' = Append(stream, [type |-> "FRAME", action |-> "POP", tid |-> tid,
                           frame_id |-> 0])
         /\ IF stackOf(tid) # <<>>
            THEN /\ d_stack_traces' = withStack(tid, popBack(stackOf(tid)))
                 /\ UNCHANGED <<pc, result>>
            ELSE \/ /\ pc' = "aborted"
                    /\ result' = "aborted"
                    /\ d_stack_traces' = withStack(tid, <<>>)
                 \/ /\ pc' = "undefined"
                    /\ result' = "undefined"
                    /\ \E garbage \in UndefinedStacks :
                          d_stack_traces' = withStack(tid, garbage)
    /\ UNCHANGED <<eof, capacity, streamThreads, d_frame_map, d_allocation_frames, d_tree,
                   d_native_frames, d_symbol_resolver, returned,
                   lastWalk, lastNativeWalk, d_header>>

\* case RecordType::FRAME_INDEX
parseFrameIndex ==
    /\ canRead
    /\ \E frame_id \in FrameIds, content \in FrameContents :
         LET ins == insertFrame(d_frame_map, frame_id, indexedFrame(content))
         IN /\ stream' = Append(stream, [type |-> "FRAME_INDEX",
                                         frame_id |-> frame_id,
                                         content |-> content])
            /\ d_frame_map' = ins.frame_map
            /\ IF ins.inserted
               THEN UNCHANGED <<pc, result>>
               ELSE /\ pc' = "failed"
                    /\ result' = "ProtocolError"
    /\ UNCHANGED <<eof, capacity, streamThreads, d_stack_traces, d_allocation_frames, d_tree,
                   d_native_frames, d_symbol_resolver, returned,
                   lastWalk, lastNativeWalk, d_header>>

\* The frame inserted at the front of the table.
parseNativeFrameIndexPrepends ==
    /\ canRead
    /\ \E ip \in IPs, index \in NativeLinks :
         /\ d_native_frames' = <<[ip |-> ip, index |-> index]>> \o d_native_frames
         /\ stream' = Append(stream, [type |-> "NATIVE_TRACE_INDEX", ip |-> ip, index |-> index])
    /\ UNCHANGED <<pc, result, eof, capacity, streamThreads, d_stack_traces, d_frame_map,
                   d_allocation_frames, d_tree, d_symbol_resolver, returned, lastWalk, lastNativeWalk, d_header>>

\* case RecordType::NATIVE_TRACE_INDEX
parseNativeFrameIndex ==
    /\ canRead
    /\ \E ip \in IPs, index \in NativeLinks :
         /\ d_native_frames' = Append(d_native_frames, [ip |-> ip, index |-> index])
         /\ stream' = Append(stream, [type |-> "NATIVE_TRACE_INDEX", ip |-> ip, index |-> index])
    /\ UNCHANGED <<pc, result, eof, capacity, streamThreads, d_stack_traces, d_frame_map,
                   d_allocation_frames, d_tree, d_symbol_resolver, returned, lastWalk, lastNativeWalk, d_header>>

\* The segment set emptied without moving to a new generation.
caseMemoryMapStartKeepsGeneration ==
    /\ canRead
    /\ d_symbol_resolver' =
          [d_symbol_resolver EXCEPT !.segments[d_symbol_resolver.generation] = <<>>]
    /\ stream' = Append(stream, [type |-> "MEMORY_MAP_START"])
    /\ UNCHANGED <<pc, result, eof, capacity, streamThreads, d_stack_traces, d_frame_map,
                   d_allocation_frames, d_tree, d_native_frames, returned, lastWalk, lastNativeWalk, d_header>>

\* case RecordType::MEMORY_MAP_START
caseMemoryMapStart ==
    /\ canRead
    /\ d_symbol_resolver' = clearSegments(d_symbol_resolver)
    /\ stream' = Append(stream, [type |-> "MEMORY_MAP_START"])
    /\ UNCHANGED <<pc, result, eof, capacity, streamThreads, d_stack_traces, d_frame_map,
                   d_allocation_frames, d_tree, d_native_frames, returned, lastWalk, lastNativeWalk, d_header>>

\* std::vector<Segment> segments(num_segments), then one emplace_back per
\* SEGMENT sub-record.
segmentsVector(num_segments, parsed) ==
    [i \in 1..num_segments |-> ZeroSegment] \o parsed

\* case RecordType::SEGMENT_HEADER
parseSegmentHeader ==
    /\ canRead
    /\ \E num_segments \in 0..MaxSegments :
         \E parsed \in [1..num_segments -> SegmentValues] :
            /\ d_symbol_resolver' =
                  addSegments(d_symbol_resolver, "lib.so", 1,
                              segmentsVector(num_segments, parsed))
            /\ stream' = Append(stream, [type |-> "SEGMENT_HEADER",
                              num_segments |-> num_segments,
                              segments |-> parsed])
    /\ UNCHANGED <<pc, result, eof, capacity, streamThreads, d_stack_traces, d_frame_map,
                   d_allocation_frames, d_tree, d_native_frames, returned, lastWalk, lastNativeWalk, d_header>>

\* An unknown tag skipped like a record without payload.
caseDefaultSkips ==
    /\ canRead
    /\ stream' = Append(stream, [type |-> "INVALID"])
    /\ UNCHANGED <<pc, result, eof, capacity, streamThreads, d_stack_traces,
                   d_frame_map, d_allocation_frames, d_tree, d_native_frames,
                   d_symbol_resolver, returned, lastWalk, lastNativeWalk, d_header>>

\* default: of the switch
caseDefault ==
    /\ canRead
    /\ pc' = "failed"
    /\ result' = "ProtocolError"
    /\ stream' = Append(stream, [type |-> "INVALID"])
    /\ UNCHANGED <<eof, capacity, streamThreads, d_stack_traces, d_frame_map, d_allocation_frames,
                   d_tree, d_native_frames, d_symbol_resolver, returned, lastWalk, lastNativeWalk, d_header>>

\* catch (const IoError&): the source ends at a record boundary.
catchIoError ==
    /\ pc = "loop"
    /\ pc' = "idle"
    /\ result' = "end_of_stream"
    /\ eof' = TRUE
    /\ UNCHANGED stream
    /\ UNCHANGED <<capacity, streamThreads, d_stack_traces, d_frame_map, d_allocation_frames,
                   d_tree, d_native_frames, d_symbol_resolver, returned, lastWalk, lastNativeWalk, d_header>>

\* The record types that have a payload.
PayloadTypes ==
    {"ALLOCATION", "FRAME", "FRAME_INDEX", "NATIVE_TRACE_INDEX", "SEGMENT_HEADER"}

\* Every SEGMENT sub-record registered as soon as it is parsed.
partialParseRegistersSegments(record_type, parsed) ==
    [stack_traces |-> d_stack_traces,
     frame_map |-> d_frame_map,
     native_frames |-> d_native_frames,
     symbol_resolver |->
        IF record_type = "SEGMENT_HEADER" /\ parsed # <<>>
        THEN addSegments(d_symbol_resolver, "lib.so", 1, parsed)
        ELSE d_symbol_resolver]

\* What a parse function has written when a read of its payload throws:
\* parseAllocationRecord, parseFrame, parseFrameIndex and
\* parseNativeFrameIndex write after their last read, and parseSegmentHeader
\* collects the sub-records in a local vector it hands over after the last
\* one.
partialParse(record_type, parsed) ==
    [stack_traces |-> d_stack_traces,
     frame_map |-> d_frame_map,
     native_frames |-> d_native_frames,
     symbol_resolver |-> d_symbol_resolver]

\* The source ends inside the payload of a record: the read throws IoError
\* out of the parse function, and catch (const IoError&) returns false.  Of
\* a SEGMENT_HEADER record `parsed` holds the sub-records read in full.
ioErrorInRecord ==
    /\ canRead
    /\ \E record_type \in PayloadTypes, k \in 0..MaxSegments :
         \E parsed \in [1..k -> SegmentValues] :
            /\ record_type # "SEGMENT_HEADER" => k = 0
            /\ LET p == partialParse(record_type, parsed)
               IN /\ d_stack_traces' = p.stack_traces
                  /\ d_frame_map' = p.frame_map
                  /\ d_native_frames' = p.native_frames
                  /\ d_symbol_resolver' = p.symbol_resolver
            /\ stream' = Append(stream, [type |-> "TRUNCATED", of |-> record_type,
                                         segments |-> parsed])
    /\ pc' = "idle"
    /\ result' = "end_of_stream"
    /\ eof' = TRUE
    /\ UNCHANGED <<capacity, streamThreads, d_allocation_frames, d_tree,
                   returned, lastWalk, lastNativeWalk, d_header>>

\* The trace indices the caller holds: 0 and those of returned allocations.
issuedIndices == {0} \cup {returned[k].frame_index : k \in 1..Len(returned)}

\* The caller walks a trace index between two nextAllocationRecord calls.
\* One walk is kept per gap: a walk changes nothing a later walk reads.
Py_GetStackFrame ==
    /\ pc = "idle"
    /\ ~lastWalk.called
    /\ ~lastNativeWalk.called
    /\ \E index \in issuedIndices, max_stacks \in 0..MaxDepth :
         lastWalk' = [index |-> index, max_stacks |-> max_stacks,
                      list |-> PyStackFrames(index, max_stacks), called |-> TRUE]
    /\ UNCHANGED <<pc, result, decoderVars, returned, lastNativeWalk>>

\* The generations the resolver has had.
knownGenerations == DOMAIN d_symbol_resolver.segments

\* The caller walks a native chain between two nextAllocationRecord calls,
\* with a chain index of the table and a generation an allocation can carry.
Py_GetNativeStackFrame ==
    /\ pc = "idle"
    /\ ~lastWalk.called
    /\ ~lastNativeWalk.called
    /\ \E index \in 0..Len(d_native_frames), generation \in knownGenerations,
          max_stacks \in 0..MaxDepth :
         LET w == PyNativeStackFrames(index, generation, max_stacks)
         IN lastNativeWalk' =
               [index |-> index, generation |-> generation,
                max_stacks |-> max_stacks, list |-> w.frames,
                steps |-> w.steps, called |-> TRUE]
    /\ UNCHANGED <<pc, result, decoderVars, returned, lastWalk>>

Next ==
    \/ nextAllocationRecord
    \/ caseAllocation
    \/ parseFramePush
    \/ parseFramePop
    \/ parseFrameIndex
    \/ parseNativeFrameIndex
    \/ caseMemoryMapStart
    \/ parseSegmentHeader
    \/ caseDefault
    \/ catchIoError
    \/ ioErrorInRecord
    \/ Py_GetStackFrame

Spec == Init /\ [][Next]_vars

\* ------------------------------------------------ deep-stack streams
\* The decoder inside its first nextAllocationRecord call, having decoded
\* FRAME_INDEX(1, foo) and FRAME_INDEX(2, bar); the rest of the stream holds
\* FRAME and ALLOCATION records of thread 1 only.
InitStack ==
    /\ pc = "loop"
    /\ result = "none"
    /\ eof = FALSE
    /\ stream = <<[type |-> "FRAME_INDEX", frame_id |-> 1, content |-> FooContent],
                 [type |-> "FRAME_INDEX", frame_id |-> 2, content |-> BarContent]>>
    /\ capacity = 2 + MaxStackRecords
    /\ streamThreads = {1}
    /\ d_stack_traces = [t \in {} |-> <<>>]
    /\ d_frame_map = [i \in FrameIds |->
                        IF i = 1 THEN indexedFrame(FooContent)
                        ELSE indexedFrame(BarContent)]
    /\ d_allocation_frames = [f \in {} |-> 0]
    /\ d_tree = <<>>
    /\ d_native_frames = <<>>
    /\ d_symbol_resolver =
          [generation |-> InitialGeneration,
           segments |-> [g \in {InitialGeneration} |-> <<>>]]
    /\ returned = <<>>
    /\ lastWalk = NoWalk
    /\ lastNativeWalk = NoNativeWalk
    /\ d_header = ValidHeader

NextStack ==
    \/ nextAllocationRecord
    \/ caseAllocation
    \/ parseFramePush
    \/ parseFramePop
    \/ catchIoError
    \/ Py_GetStackFrame

SpecStack == InitStack /\ [][NextStack]_vars

\* ------------------------------------------------ construction
\* d_header before readHeader has filled it.
EmptyHeader ==
    [magic |-> "", version |-> 0, native_traces |-> FALSE, stats |-> "",
     command_line |-> ""]

\* Magic tags and versions a file can start with.
Magics == {MAGIC, "notpensv"}
Versions == {CURRENT_HEADER_VERSION, 2}
FileHeaders ==
    [magic : Magics, version : Versions, native_traces : BOOLEAN,
     stats : {"stats"}, command_line : {"python app.py"}]

\* Only the magic tag is compared.
readHeaderIgnoresVersion(file) ==
    IF file.magic # MAGIC
    THEN [ok |-> FALSE, header |-> [EmptyHeader EXCEPT !.magic = file.magic]]
    ELSE [ok |-> TRUE, header |-> file]

\* readHeader(header): the fields are read in order; the magic tag is
\* compared before the version is read, the version before the rest.
readHeader(file) ==
    IF file.magic # MAGIC
    THEN [ok |-> FALSE, header |-> [EmptyHeader EXCEPT !.magic = file.magic]]
    ELSE IF file.version # CURRENT_HEADER_VERSION
    THEN [ok |-> FALSE,
          header |-> [EmptyHeader EXCEPT !.magic = file.magic,
                                         !.version = file.version]]
    ELSE [ok |-> TRUE, header |-> file]

\* RecordReader::RecordReader(source): the constructor reads the header.  A
\* file shorter than its header ends the construction with the IoError of
\* the source.
RecordReader ==
    /\ pc = "constructing"
    /\ \/ \E file \in FileHeaders :
            LET r == readHeader(file)
            IN /\ stream' = <<[type |-> "HEADER", header |-> file]>>
               /\ d_header' = r.header
               /\ IF r.ok
                  THEN pc' = "idle" /\ result' = "none"
                  ELSE pc' = "format_error" /\ result' = "FormatError"
               /\ eof' = FALSE
       \/ /\ stream' = <<[type |-> "HEADER_TRUNCATED"]>>
          /\ pc' = "failed"
          /\ result' = "IoError"
          /\ eof' = TRUE
          /\ UNCHANGED d_header
    /\ UNCHANGED <<capacity, streamThreads, d_stack_traces, d_frame_map,
                   d_allocation_frames, d_tree, d_native_frames,
                   d_symbol_resolver, returned, lastWalk, lastNativeWalk>>

\* getHeader()
getHeader == d_header

\* A reader about to be constructed on a file of at most MaxHeaderRecords
\* records.
InitHeader ==
    /\ pc = "constructing"
    /\ result = "none"
    /\ eof = FALSE
    /\ stream = <<>>
    /\ capacity = 1 + MaxHeaderRecords
    /\ streamThreads = Threads
    /\ d_stack_traces = [t \in {} |-> <<>>]
    /\ d_frame_map = [i \in {} |-> NoRecord]
    /\ d_allocation_frames = [f \in {} |-> 0]
    /\ d_tree = <<>>
    /\ d_native_frames = <<>>
    /\ d_symbol_resolver =
          [generation |-> InitialGeneration,
           segments |-> [g \in {InitialGeneration} |-> <<>>]]
    /\ returned = <<>>
    /\ lastWalk = NoWalk
    /\ lastNativeWalk = NoNativeWalk
    /\ d_header = EmptyHeader

NextHeader ==
    \/ RecordReader
    \/ Next

SpecHeader == InitHeader /\ [][NextHeader]_vars

\* ------------------------------------------------ two-thread streams
\* FRAME_INDEX payloads that differ from FooContent in one field each.
ContentVariants ==
    {FooContent,
     [function_name |-> "baz", filename |-> "a.py", parent_lineno |-> 0],
     [function_name |-> "foo", filename |-> "c.py", parent_lineno |-> 0],
     [function_name |-> "foo", filename |-> "a.py", parent_lineno |-> 5]}

\* The decoder inside its first nextAllocationRecord call, having decoded
\* FRAME_INDEX(1, c1), FRAME_INDEX(2, c2), a push on thread 1 and a push on
\* thread 2; the rest of the stream holds FRAME pushes and ALLOCATION
\* records of both threads.
InitPrecise ==
    /\ pc = "loop"
    /\ result = "none"
    /\ eof = FALSE
    /\ capacity = 4 + MaxPreciseRecords
    /\ streamThreads = Threads
    /\ \E c1 \in ContentVariants, c2 \in ContentVariants, a \in FrameIds, b \in FrameIds :
          /\ stream =
                <<[type |-> "FRAME_INDEX", frame_id |-> 1, content |-> c1],
                  [type |-> "FRAME_INDEX", frame_id |-> 2, content |-> c2],
                  [type |-> "FRAME", action |-> "PUSH", tid |-> 1, frame_id |-> a],
                  [type |-> "FRAME", action |-> "PUSH", tid |-> 2, frame_id |-> b]>>
          /\ d_frame_map = [i \in FrameIds |->
                              IF i = 1 THEN indexedFrame(c1) ELSE indexedFrame(c2)]
          /\ d_stack_traces = [t \in Threads |-> IF t = 1 THEN <<a>> ELSE <<b>>]
    /\ d_allocation_frames = [f \in {} |-> 0]
    /\ d_tree = <<>>
    /\ d_native_frames = <<>>
    /\ d_symbol_resolver =
          [generation |-> InitialGeneration,
           segments |-> [g \in {InitialGeneration} |-> <<>>]]
    /\ returned = <<>>
    /\ lastWalk = NoWalk
    /\ lastNativeWalk = NoNativeWalk
    /\ d_header = ValidHeader

NextPrecise ==
    \/ nextAllocationRecord
    \/ caseAllocation
    \/ parseFramePush
    \/ catchIoError

SpecPrecise == InitPrecise /\ [][NextPrecise]_vars

\* ------------------------------------------------ native-trace streams
\* The decoder inside its first nextAllocationRecord call, having decoded
\* FRAME_INDEX(2, bar); the rest of the stream holds FRAME pushes and
\* ALLOCATION records of thread 1, NATIVE_TRACE_INDEX, MEMORY_MAP_START and
\* SEGMENT_HEADER records.
InitNative ==
    /\ pc = "loop"
    /\ result = "none"
    /\ eof = FALSE
    /\ stream = <<[type |-> "FRAME_INDEX", frame_id |-> 2, content |-> BarContent]>>
    /\ capacity = 1 + MaxNativeRecords
    /\ streamThreads = {1}
    /\ d_stack_traces = [t \in {} |-> <<>>]
    /\ d_frame_map = [i \in {2} |-> indexedFrame(BarContent)]
    /\ d_allocation_frames = [f \in {} |-> 0]
    /\ d_tree = <<>>
    /\ d_native_frames = <<>>
    /\ d_symbol_resolver =
          [generation |-> InitialGeneration,
           segments |-> [g \in {InitialGeneration} |-> <<>>]]
    /\ returned = <<>>
    /\ lastWalk = NoWalk
    /\ lastNativeWalk = NoNativeWalk
    /\ d_header = ValidHeader

NextNative ==
    \/ nextAllocationRecord
    \/ caseAllocation
    \/ parseFramePush
    \/ parseNativeFrameIndex
    \/ caseMemoryMapStart
    \/ parseSegmentHeader
    \/ catchIoError
    \/ Py_GetStackFrame
    \/ Py_GetNativeStackFrame

SpecNative == InitNative /\ [][NextNative]_vars

\* =================================================================
\* Properties
\* =================================================================
Failures == {"failed", "aborted", "undefined"}

IsAllocation(r) == r.type = "ALLOCATION"
\* The ALLOCATION records of the stream delivered so far, in stream order.
streamAllocations == SelectSeq(stream, IsAllocation)

\* The record consumed by the step, when the step consumed one.
consumed == stream' # stream
consumedRecord == Last(stream')

\* ------------------------------------------------------------------ C1
C1_State ==
    /\ Len(returned) <= Len(streamAllocations)
    /\ \A k \in 1..Len(returned) :
          returned[k].record = streamAllocations[k].record
    /\ pc \notin Failures => Len(returned) = Len(streamAllocations)

C1_Step ==
    /\ returned' # returned =>
          /\ pc = "loop" /\ pc' = "idle" /\ result' = "allocation"
          /\ returned' = Append(returned, Last(returned'))
          /\ stream' = Append(stream, consumedRecord)
          /\ IsAllocation(consumedRecord)
    /\ (pc = "loop" /\ pc' = "idle" /\ result' = "allocation") =>
          returned' # returned
    /\ eof => /\ returned' = returned
              /\ stream' = stream
              /\ pc = "loop" => (pc' = "idle" /\ result' = "end_of_stream")
    /\ result' = "end_of_stream" => eof'

\* C1: the k-th nextAllocationRecord call that returns an allocation returns
\* the k-th ALLOCATION record of the stream; a call returns at most one
\* allocation, at the step that consumes its record; once the source is
\* exhausted a call returns end_of_stream and never an allocation.
C1_AllocationsInStreamOrder == [][C1_State /\ C1_State' /\ C1_Step]_vars

C1_Witness ==
    /\ Len(returned) = 2
    /\ returned[1].record # returned[2].record
    /\ Len(stream) = 3
    /\ ~IsAllocation(stream[2])
    /\ eof
    /\ result = "end_of_stream"

\* ------------------------------------------------------------------ C2
\* C2, as the specification states it: a FRAME record with action POP for a thread whose stack
\* is empty makes nextAllocationRecord fail with ProtocolError, and the pop
\* is not applied.
C2_PopOnEmptyFails ==
    [][(consumed /\ consumedRecord.type = "FRAME"
          /\ consumedRecord.action = "POP"
          /\ stackOf(consumedRecord.tid) = <<>>)
       => (pc' = "failed" /\ result' = "ProtocolError")]_vars

\* ------------------------------------------------------------------ C3
allocationStep == consumed /\ IsAllocation(consumedRecord)
preciseIds == {d_allocation_frames[f] : f \in DOMAIN d_allocation_frames}

\* C3, as the specification states it: decoding an ALLOCATION record leaves the frame
\* identifiers of every thread's stack as they were.
C3_AllocationLeavesStack ==
    [][allocationStep => d_stack_traces' = d_stack_traces]_vars

C3_AllocationStep ==
    LET tid == consumedRecord.record.tid
        old == stackOf(tid)
        new == IF tid \in DOMAIN d_stack_traces' THEN d_stack_traces'[tid] ELSE <<>>
    IN /\ Len(new) = Len(old)
       /\ \A k \in 1..(Len(old) - 1) : new[k] = old[k]
       /\ \A t \in DOMAIN d_stack_traces : t # tid => d_stack_traces'[t] = d_stack_traces[t]
       /\ (old # <<>> /\ pc' = "idle") =>
             /\ Last(new) \in preciseIds'
             /\ d_frame_map'[Last(new)] =
                   [d_frame_map[Last(old)] EXCEPT !.lineno = consumedRecord.record.py_lineno]

C3_FrameStep ==
    LET tid == consumedRecord.tid
    IN (pc' \notin Failures) =>
          IF consumedRecord.action = "PUSH"
          THEN d_stack_traces'[tid] = Append(stackOf(tid), consumedRecord.frame_id)
          ELSE d_stack_traces'[tid] = Front(stackOf(tid))

\* C3, as the code has it: decoding an ALLOCATION record for thread T keeps the length
\* of T's stack and every identifier below the top, and replaces the top by
\* the precise identifier, whose Frame is the old top's with the line hint
\* filled in; the replacement stays in T's stack: later pushes go on top of
\* it, and only a pop of that entry removes it.
C3_TopRewritePersists ==
    [][/\ allocationStep => C3_AllocationStep
       /\ (consumed /\ consumedRecord.type = "FRAME") => C3_FrameStep
       /\ (~consumed \/ consumedRecord.type \notin {"FRAME", "ALLOCATION"}) =>
             d_stack_traces' = d_stack_traces]_vars

C3_Witness ==
    /\ result = "allocation"
    /\ 1 \in DOMAIN d_stack_traces
    /\ Len(d_stack_traces[1]) = 2
    /\ d_stack_traces[1][1] \in preciseIds
    /\ d_stack_traces[1][2] \in preciseIds
    /\ Len(returned) = 2

\* ------------------------------------------------------------------ C4
\* C4, as the specification states it: a SEGMENT_HEADER record with segment count n gives one
\* addSegments call under the current generation whose list is the n
\* SEGMENT sub-records, in stream order.
C4_SegmentsAsRead ==
    [][(consumed /\ consumedRecord.type = "SEGMENT_HEADER") =>
          LET g == currentSegmentGeneration(d_symbol_resolver)
              before == d_symbol_resolver.segments[g]
              after == d_symbol_resolver'.segments[g]
          IN /\ Len(after) = Len(before) + 1
             /\ Len(Last(after).segments) = consumedRecord.num_segments
             /\ Last(after).segments = consumedRecord.segments]_vars

\* ------------------------------------------------------------------ C5
\* C5: a FRAME_INDEX record whose frame id is already defined, with the same
\* or with different content, makes nextAllocationRecord fail with the
\* runtime_error (ProtocolError), not end_of_stream; the table is unchanged.
C5_DuplicateFrameIndexFails ==
    [][(consumed /\ consumedRecord.type = "FRAME_INDEX"
          /\ consumedRecord.frame_id \in DOMAIN d_frame_map)
       => (/\ pc' = "failed"
           /\ result' = "ProtocolError"
           /\ d_frame_map' = d_frame_map
           /\ returned' = returned)]_vars

C5_Witness ==
    /\ pc = "failed"
    /\ result = "ProtocolError"
    /\ Len(stream) >= 2
    /\ Last(stream).type = "FRAME_INDEX"
    /\ Last(stream).frame_id \in DOMAIN d_frame_map
    /\ d_frame_map[Last(stream).frame_id] # indexedFrame(Last(stream).content)

\* ------------------------------------------------------------------ C6
\* C6: a record with an unknown type tag makes nextAllocationRecord fail
\* with ProtocolError: the call returns neither an allocation nor
\* end_of_stream, and nothing is decoded after the malformed record.
C6_InvalidTagFails ==
    [][/\ (consumed /\ consumedRecord.type = "INVALID") =>
             /\ pc' = "failed"
             /\ result' = "ProtocolError"
             /\ returned' = returned
             /\ UNCHANGED <<d_stack_traces, d_frame_map, d_allocation_frames,
                            d_tree, d_native_frames, d_symbol_resolver>>
       /\ (stream # <<>> /\ Last(stream).type = "INVALID") =>
             UNCHANGED <<stream, returned, result, pc>>]_vars

C6_Witness ==
    /\ pc = "failed"
    /\ result = "ProtocolError"
    /\ Len(stream) = 2
    /\ Last(stream).type = "INVALID"

\* ------------------------------------------------------------------ C7
EmptyWalk == [error |-> "none", frames |-> <<>>]

\* C7: an ALLOCATION record for a thread whose stack is empty (never pushed,
\* or every push popped) is returned with trace index 0 instead of failing,
\* and Py_GetStackFrame(0, d) gives the empty list for every depth bound d.
C7_EmptyStackGivesZero ==
    [][/\ (allocationStep /\ stackOf(consumedRecord.record.tid) = <<>>) =>
             /\ pc' = "idle"
             /\ result' = "allocation"
             /\ returned' = Append(returned, Last(returned'))
             /\ Last(returned').frame_index = 0
             /\ \A d \in 0..MaxDepth : PyStackFrames(0, d)' = EmptyWalk
       /\ (lastWalk'.called /\ lastWalk'.index = 0) =>
             lastWalk'.list = EmptyWalk]_vars

C7_Witness ==
    /\ result = "allocation"
    /\ IsAllocation(Last(stream))
    /\ Last(stream).record.tid \in DOMAIN d_stack_traces
    /\ d_stack_traces[Last(stream).record.tid] = <<>>
    /\ stream[1].type = "FRAME" /\ stream[1].action = "PUSH"
    /\ stream[1].tid = Last(stream).record.tid
    /\ Last(returned).frame_index = 0
    /\ lastWalk.called /\ lastWalk.index = 0 /\ lastWalk.max_stacks = MaxDepth
    /\ lastWalk.list = EmptyWalk

\* ------------------------------------------------------------------ C8
RECURSIVE Reverse(_)
Reverse(s) == IF s = <<>> THEN <<>> ELSE Append(Reverse(Tail(s)), Head(s))

\* The frame identifiers met walking nextNode from `index` to index 0.
RECURSIVE chainIds(_, _)
chainIds(tree, index) ==
    IF index = 0 THEN <<>>
    ELSE <<nextNode(tree, index).frame_id>>
            \o chainIds(tree, nextNode(tree, index).parent_index)

IsPrefix(a, b) == Len(a) <= Len(b) /\ SubSeq(b, 1, Len(a)) = a

TestIds == FrameIds \cup {FirstPreciseId}
\* Every stack of at most two of the test identifiers.
TestStacks ==
    {<<>>} \cup {<<a>> : a \in TestIds} \cup {<<a, b>> : a, b \in TestIds}

\* What holds of the allocation just returned: S is its thread's stack and
\* idx its trace index.
C8_AfterAllocation ==
    LET S == d_stack_traces[Last(stream).record.tid]
        idx == Last(returned).frame_index
    IN /\ chainIds(d_tree, idx) = Reverse(S)
       /\ idx = 0 <=> S = <<>>
       /\ \A i, j \in 1..Len(d_tree) : d_tree[i] = d_tree[j] => i = j
       /\ \A d \in 0..MaxDepth :
             LET w == PyStackFrames(idx, d)
                 n == IF Len(S) < d THEN Len(S) ELSE d
             IN /\ w.error = "none"
                /\ Len(w.frames) = n
                /\ \A k \in 1..n : w.frames[k].frame = d_frame_map[Reverse(S)[k]]
       /\ \A T \in TestStacks :
             LET r == getTraceIndex(d_tree, T)
             IN /\ chainIds(r.tree, r.index) = Reverse(T)
                /\ r.index = 0 <=> T = <<>>
                /\ r.index = idx <=> T = S
                /\ IsPrefix(d_tree, r.tree)
                /\ getTraceIndex(r.tree, T) = r
                /\ getTraceIndex(r.tree, S) = [tree |-> r.tree, index |-> idx]

\* C8: the index an allocation gets for its thread's stack S walks back,
\* node by node, through exactly the identifiers of S from top to bottom
\* (Py_GetStackFrame gives their frames in that order); in the tree reached
\* by any sequence of earlier allocations, an index computed for a stack T
\* walks back through T, equals the index of S exactly when T = S, is 0
\* exactly for the empty stack, and is found again when computed again.
C8_IndexWalksBackThroughStack ==
    (/\ pc = "idle" /\ result = "allocation" /\ ~lastWalk.called
     /\ Last(stream).record.tid \in DOMAIN d_stack_traces)
    => C8_AfterAllocation

C8_Witness ==
    /\ result = "allocation"
    /\ Len(returned) = 3
    /\ 1 \in DOMAIN d_stack_traces
    /\ Len(d_stack_traces[1]) = 2
    /\ Len(d_tree) >= 4
    /\ chainIds(d_tree, Last(returned).frame_index) = Reverse(d_stack_traces[1])
    /\ returned[1].frame_index # returned[2].frame_index
    /\ returned[2].frame_index # returned[3].frame_index

\* ------------------------------------------------------------------ C9
IsPush(r) == r.type = "FRAME" /\ r.action = "PUSH"
IsPop(r) == r.type = "FRAME" /\ r.action = "POP"

\* The stream ends with: push A, push B, push C, allocation, pop, push D,
\* allocation, all of one thread, and the last allocation has just returned.
C9_Scenario ==
    /\ pc = "idle" /\ result = "allocation"
    /\ Len(stream) >= 7
    /\ LET n == Len(stream)
       IN /\ IsPush(stream[n - 6]) /\ IsPush(stream[n - 5]) /\ IsPush(stream[n - 4])
          /\ IsAllocation(stream[n - 3])
          /\ IsPop(stream[n - 2])
          /\ IsPush(stream[n - 1])
          /\ IsAllocation(stream[n])
          /\ \A k \in (n - 6)..n :
                (IF IsAllocation(stream[k]) THEN stream[k].record.tid
                 ELSE stream[k].tid) = stream[n].record.tid

\* C9: after push A, push B, push C, allocation, pop, push D, allocation on
\* one thread, the nodes of the two trace indices have the same parent, the
\* node chain of [A, B]; the second index is the one getTraceIndex computes
\* from scratch, in the same tree, for the thread's stack [A, B, D] with D
\* line-corrected as the allocation left it, and that computation adds no
\* node.
C9_RepushSharesPrefix ==
    C9_Scenario =>
       LET n == Len(stream)
           A == stream[n - 6].frame_id
           B == stream[n - 5].frame_id
           i1 == returned[Len(returned) - 1].frame_index
           i2 == Last(returned).frame_index
           stack == d_stack_traces[stream[n].record.tid]
           scratch == getTraceIndex(d_tree, stack)
       IN /\ i1 # 0 /\ i2 # 0
          /\ nextNode(d_tree, i1).parent_index = nextNode(d_tree, i2).parent_index
          /\ nextNode(d_tree, i2).parent_index # 0
          /\ SubSeq(chainIds(d_tree, nextNode(d_tree, i2).parent_index), 1, 2)
                = <<B, A>>
          /\ SubSeq(stack, Len(stack) - 2, Len(stack) - 1) = <<A, B>>
          /\ d_frame_map[Last(stack)] =
                [d_frame_map[stream[n - 1].frame_id]
                    EXCEPT !.lineno = stream[n].record.py_lineno]
          /\ scratch.index = i2
          /\ scratch.tree = d_tree
          /\ i1 = i2 <=> (/\ stream[n - 4].frame_id = stream[n - 1].frame_id
                          /\ stream[n - 3].record.py_lineno = stream[n].record.py_lineno)

C9_Witness ==
    /\ C9_Scenario
    /\ Len(returned) = 2
    /\ returned[1].frame_index # returned[2].frame_index
    /\ stream[Len(stream) - 4].frame_id # stream[Len(stream) - 1].frame_id
    /\ Len(d_tree) = 4

\* ----------------------------------------------------------------- C10
\* What the caller can read through a trace index it holds.
readSide(i) ==
    [node |-> nextNode(d_tree, i),
     walks |-> [d \in 0..MaxDepth |-> PyStackFrames(i, d)]]

C10_State ==
    /\ \A k \in 1..Len(returned) : returned[k].frame_index \in 0..Len(d_tree)
    /\ 0 \notin DOMAIN d_tree
    /\ \A k \in 1..Len(d_tree) : d_tree[k].parent_index \in 0..(k - 1)
    /\ lastWalk.called =>
          lastWalk.list = PyStackFrames(lastWalk.index, lastWalk.max_stacks)

IsMemoryMapStart(r) == r.type = "MEMORY_MAP_START"

\* The position in the stream of its k-th ALLOCATION record.
allocationPosition(k) ==
    CHOOSE i \in 1..Len(stream) :
        /\ IsAllocation(stream[i])
        /\ Cardinality({j \in 1..i : IsAllocation(stream[j])}) = k

\* The MEMORY_MAP_START records among the first n records of the stream.
mapStartsBefore(n) ==
    Cardinality({j \in 1..n : IsMemoryMapStart(stream[j])})

\* C11: the generation of the k-th returned allocation is the initial
\* generation plus the number of MEMORY_MAP_START records before its
\* ALLOCATION record; generations never decrease from one allocation to the
\* next, two allocations have the same generation exactly when no
\* MEMORY_MAP_START record lies between their records, and the resolver's
\* generation moves with MEMORY_MAP_START records only.
C11_GenerationCountsMapStarts ==
    /\ currentSegmentGeneration(d_symbol_resolver) =
          InitialGeneration + mapStartsBefore(Len(stream))
    /\ \A k \in 1..Len(returned) :
          returned[k].native_segment_generation =
              InitialGeneration + mapStartsBefore(allocationPosition(k))
    /\ \A k, l \in 1..Len(returned) :
          k < l =>
             /\ returned[k].native_segment_generation
                   <= returned[l].native_segment_generation
             /\ (returned[k].native_segment_generation
                   = returned[l].native_segment_generation)
                <=> (\A j \in allocationPosition(k)..allocationPosition(l) :
                        ~IsMemoryMapStart(stream[j]))

C11_Witness ==
    /\ Len(returned) = 2
    /\ Len(stream) = 3
    /\ IsMemoryMapStart(stream[2])
    /\ returned[1].native_segment_generation = InitialGeneration
    /\ returned[2].native_segment_generation = InitialGeneration + 1

\* ----------------------------------------------------------------- C12
\* Instruction pointers to resolve: one inside Segment 1, one inside Segment 2.
QueryIPs == {7, 8}

\* The instruction pointers of the chain entries met in at most n steps.
RECURSIVE chainIps(_, _)
chainIps(index, n) ==
    IF index = 0 \/ n = 0 THEN <<>>
    ELSE <<d_native_frames[index].ip>>
            \o chainIps(d_native_frames[index].index, n - 1)

\* The frames the instruction pointers resolve to under generation g.
RECURSIVE resolvedUnder(_, _)
resolvedUnder(ips, g) ==
    IF ips = <<>> THEN <<>>
    ELSE resolve(d_symbol_resolver, Head(ips), g).frames
            \o resolvedUnder(Tail(ips), g)

C12_WalkUsesItsGeneration ==
    lastNativeWalk.called =>
        lastNativeWalk.list =
            resolvedUnder(chainIps(lastNativeWalk.index, lastNativeWalk.max_stacks),
                          lastNativeWalk.generation)

\* C12: once a generation g is no longer the current one, resolve(ip, g)
\* gives after every step what it gave before it, whatever clearSegments and
\* addSegments calls follow; a walk of a native chain resolves every entry
\* with the generation the caller passed, not with the current one.
C12_ResolveKeepsGeneration ==
    [][/\ d_symbol_resolver' # d_symbol_resolver =>
             \A g \in knownGenerations, ip \in QueryIPs :
                 g < currentSegmentGeneration(d_symbol_resolver)' =>
                     resolve(d_symbol_resolver, ip, g)'
                         = resolve(d_symbol_resolver, ip, g)
       /\ lastNativeWalk' # lastNativeWalk => C12_WalkUsesItsGeneration']_vars

C12_Witness ==
    /\ lastNativeWalk.called
    /\ lastNativeWalk.generation < currentSegmentGeneration(d_symbol_resolver)
    /\ lastNativeWalk.list # <<>>
    /\ PyNativeStackFrames(lastNativeWalk.index,
                           currentSegmentGeneration(d_symbol_resolver),
                           lastNativeWalk.max_stacks).frames = <<>>
    /\ resolve(d_symbol_resolver, 7, lastNativeWalk.generation).resolved
    /\ ~resolve(d_symbol_resolver, 7,
                currentSegmentGeneration(d_symbol_resolver)).resolved

\* ----------------------------------------------------------------- C13
Min(a, b) == IF a < b THEN a ELSE b

\* The chain index reached from `index` after n links.
RECURSIVE nativeAfter(_, _)
nativeAfter(index, n) ==
    IF index = 0 \/ n = 0 THEN index
    ELSE nativeAfter(d_native_frames[index].index, n - 1)

\* The native walk took at most max_stacks steps and stopped before the
\* bound only at the terminal index 0.
nativeWalkBounded ==
    lastNativeWalk.called =>
        /\ lastNativeWalk.steps <= lastNativeWalk.max_stacks
        /\ lastNativeWalk.steps < lastNativeWalk.max_stacks =>
              nativeAfter(lastNativeWalk.index, lastNativeWalk.steps) = 0
        /\ \A n \in 0..(lastNativeWalk.steps - 1) :
              nativeAfter(lastNativeWalk.index, n) # 0

RECURSIVE pushedStack(_, _)
pushedStack(n, tid) ==
    IF n = 0 THEN <<>>
    ELSE LET r == stream[n]
             below == pushedStack(n - 1, tid)
         IN IF r.type = "FRAME" /\ r.tid = tid
            THEN IF r.action = "PUSH" THEN Append(below, r.frame_id) ELSE Front(below)
            ELSE below

\* The payload of the FRAME_INDEX record that defines frame_id.
definedContent(frame_id) ==
    LET k == CHOOSE k \in 1..Len(stream) :
                 stream[k].type = "FRAME_INDEX" /\ stream[k].frame_id = frame_id
    IN stream[k].content

\* C14: after an ALLOCATION record with line hint L on a thread on which the
\* stream has pushed [f1..fn], n >= 1, a walk of the allocation's trace index
\* with depth bound d >= n gives n frames, innermost first; the k-th has the
\* function name, file name and caller line of the FRAME_INDEX record of
\* the identifier pushed at that position, and the first has own line L.
C14_WalkGivesPushedFrames ==
    (pc = "idle" /\ result = "allocation") =>
        LET tid == Last(stream).record.tid
            L == Last(stream).record.py_lineno
            pushed == pushedStack(Len(stream), tid)
            n == Len(pushed)
            idx == Last(returned).frame_index
            walked == lastWalk.called /\ lastWalk.index = idx
                         /\ lastWalk.max_stacks >= n
        IN n >= 1 =>
              \A d \in {n, n + 1} :
                 LET w == IF walked THEN lastWalk.list ELSE PyStackFrames(idx, d)
                 IN /\ w.error = "none"
                    /\ Len(w.frames) = n
                    /\ w.frames[1].frame.lineno = L
                    /\ \A k \in 1..n :
                          LET c == definedContent(pushed[n + 1 - k])
                              f == w.frames[k].frame
                          IN /\ f.function_name = c.function_name
                             /\ f.filename = c.filename
                             /\ f.parent_lineno = c.parent_lineno

C14_Witness ==
    /\ pc = "idle" /\ result = "allocation"
    /\ lastWalk.called
    /\ lastWalk.index = Last(returned).frame_index
    /\ lastWalk.max_stacks = 2
    /\ pushedStack(Len(stream), 1) = <<1, 2>>
    /\ lastWalk.list.frames[1].frame =
          [function_name |-> "bar", filename |-> "b.py", parent_lineno |-> 3,
           lineno |-> 42]
    /\ lastWalk.list.frames[2].frame =
          [function_name |-> "foo", filename |-> "a.py", parent_lineno |-> 0,
           lineno |-> 41]

\* ----------------------------------------------------------------- C15
\* Nothing has been built from the stream.
nothingDecoded ==
    /\ d_stack_traces = [t \in {} |-> <<>>]
    /\ d_frame_map = [i \in {} |-> NoRecord]
    /\ d_allocation_frames = [f \in {} |-> 0]
    /\ d_tree = <<>>
    /\ d_native_frames = <<>>
    /\ currentSegmentGeneration(d_symbol_resolver) = InitialGeneration
    /\ returned = <<>>

\* C15: the construction fails with the format error when the file's magic
\* tag or version is not the supported one, before any record is read and
\* with nothing decoded, and nothing can be done with the reader afterwards;
\* after a successful construction getHeader() gives the file's header, the
\* same one after every later step.
C15_HeaderIsValidated ==
    [][/\ (pc = "constructing" /\ stream'[1].type = "HEADER") =>
             LET file == stream'[1].header
             IN IF file.magic # MAGIC \/ file.version # CURRENT_HEADER_VERSION
                THEN /\ pc' = "format_error"
                     /\ result' = "FormatError"
                     /\ Len(stream') = 1
                     /\ nothingDecoded'
                ELSE /\ pc' = "idle"
                     /\ getHeader' = file
       /\ pc = "format_error" => UNCHANGED vars
       /\ pc # "constructing" => getHeader' = getHeader]_vars

C15_Witness ==
    /\ pc = "format_error"
    /\ stream[1].header.magic = MAGIC
    /\ stream[1].header.version # CURRENT_HEADER_VERSION

\* ----------------------------------------------------------------- C16
\* What the stream says of the k-th allocation: the content of the frame
\* pushed last on its thread, and its line hint.
allocationKey(k) ==
    LET pos == allocationPosition(k)
        record == stream[pos].record
    IN [content |-> definedContent(Last(pushedStack(pos, record.tid))),
        lineno |-> record.py_lineno]

\* The frame identifier at the top of the stack the k-th allocation got its
\* trace index for.
allocationTopId(k) == nextNode(d_tree, returned[k].frame_index).frame_id

\* No FRAME record lies between the records of the k-th and l-th allocation.
noFrameBetween(k, l) ==
    \A j \in allocationPosition(k)..allocationPosition(l) :
        stream[j].type # "FRAME"

\* C16: two allocations, of one thread or of two, whose top frames have the
\* same function name, file name and caller line and whose line hints are
\* equal get the same precise identifier, and allocations that differ in one
\* of the four get different ones; two allocations of one thread with no
\* FRAME record between them have the same trace index exactly when their
\* line hints are equal.
C16_PreciseIdsAreContentAddressed ==
    \A k, l \in 1..Len(returned) :
        k < l =>
           /\ returned[k].frame_index # 0 /\ returned[l].frame_index # 0
           /\ allocationTopId(k) \in preciseIds
           /\ (allocationKey(k) = allocationKey(l))
                 <=> (allocationTopId(k) = allocationTopId(l))
           /\ (returned[k].record.tid = returned[l].record.tid
                  /\ noFrameBetween(k, l)) =>
                 ((returned[k].frame_index = returned[l].frame_index)
                     <=> (returned[k].record.py_lineno = returned[l].record.py_lineno))

C16_Witness ==
    /\ Len(returned) = 3
    /\ returned[1].record.tid # returned[2].record.tid
    /\ stream[3].frame_id # stream[4].frame_id
    /\ allocationTopId(1) = allocationTopId(2)
    /\ returned[3].record.tid = returned[1].record.tid
    /\ returned[3].frame_index # returned[1].frame_index
    /\ Len(stream) = 7

\* ----------------------------------------------------------------- C17
IsNativeTraceIndex(r) == r.type = "NATIVE_TRACE_INDEX"
\* The NATIVE_TRACE_INDEX records of the stream delivered so far, in order.
streamNativeFrames == SelectSeq(stream, IsNativeTraceIndex)

C17_State ==
    /\ Len(d_native_frames) = Len(streamNativeFrames)
    /\ \A k \in 1..Len(streamNativeFrames) :
          nativeAt(d_native_frames, k - 1) =
              [ip |-> streamNativeFrames[k].ip, index |-> streamNativeFrames[k].index]

\* C17: the entry a walk reads for chain index k, 1 <= k <= the number of
\* NATIVE_TRACE_INDEX records decoded, is the (ip, link) pair of the k-th
\* such record of the stream; an entry never changes once it is in the
\* table, and the table changes only by the decoding of a
\* NATIVE_TRACE_INDEX record, which adds one entry at the end.
C17_NativeTableIsAppendOnly ==
    [][/\ C17_State'
       /\ d_native_frames' # d_native_frames =>
             /\ consumed /\ IsNativeTraceIndex(consumedRecord)
             /\ d_native_frames' = Append(d_native_frames, Last(d_native_frames'))
       /\ (consumed /\ IsNativeTraceIndex(consumedRecord)) =>
             Len(d_native_frames') = Len(d_native_frames) + 1]_vars

C17_Witness ==
    /\ Len(d_native_frames) = 2
    /\ d_native_frames[1] # d_native_frames[2]
    /\ Len(stream) = 3
    /\ ~IsNativeTraceIndex(stream[2])
    /\ C17_State

\* ----------------------------------------------------------------- C18
\* C18: an identifier of the frame table, defined by a FRAME_INDEX record or
\* minted by a line correction, maps to the same Frame after every step: a
\* FRAME_INDEX record with a defined identifier is rejected and leaves the
\* table as it was, and a line correction adds at most one identifier, a
\* precise one, and touches no other.
C18_FrameTableIsWriteOnce ==
    [][/\ \A id \in DOMAIN d_frame_map :
             /\ id \in DOMAIN d_frame_map'
             /\ d_frame_map'[id] = d_frame_map[id]
       /\ d_frame_map' # d_frame_map =>
             /\ consumed
             /\ consumedRecord.type \in {"FRAME_INDEX", "ALLOCATION"}
             /\ Cardinality(DOMAIN d_frame_map') = Cardinality(DOMAIN d_frame_map) + 1
       /\ (consumed /\ consumedRecord.type = "FRAME_INDEX"
              /\ consumedRecord.frame_id \in DOMAIN d_frame_map) =>
             (d_frame_map' = d_frame_map /\ pc' = "failed")
       /\ allocationStep =>
             (DOMAIN d_frame_map' \ DOMAIN d_frame_map) \subseteq preciseIds']_vars

C18_Witness ==
    /\ result = "allocation"
    /\ Len(stream) = 3
    /\ Cardinality(DOMAIN d_frame_map) = 2
    /\ DOMAIN d_frame_map \cap preciseIds # {}
    /\ \E id \in DOMAIN d_frame_map \cap FrameIds :
          d_frame_map[id].lineno = NoLine

\* ----------------------------------------------------------------- C19
\* Every FRAME push of the stream follows a FRAME_INDEX record of its id.
pushesAreDefined ==
    \A k \in 1..Len(stream) :
        IsPush(stream[k]) =>
            \E j \in 1..(k - 1) :
                stream[j].type = "FRAME_INDEX" /\ stream[j].frame_id = stream[k].frame_id

\* Every identifier held in a thread's stack or in a tree node is defined.
heldIdsAreDefined ==
    /\ \A t \in DOMAIN d_stack_traces :
          \A i \in 1..Len(d_stack_traces[t]) :
              d_stack_traces[t][i] \in DOMAIN d_frame_map
    /\ \A n \in 1..Len(d_tree) : d_tree[n].frame_id \in DOMAIN d_frame_map

\* C19, as the specification states it: when every FRAME push of the stream
\* follows a FRAME_INDEX record defining its identifier, every identifier
\* held in a thread's stack or in a tree node is defined in the frame table
\* in every reachable state, and neither a line correction nor a walk of an
\* issued trace index looks up an undefined identifier.
C19_HeldIdsAreDefined ==
    pushesAreDefined =>
        /\ heldIdsAreDefined
        /\ result # "OutOfRange"
        /\ lastWalk.called => lastWalk.list.error = "none"

\* ----------------------------------------------------------------- C20
IsTruncated(r) == r.type = "TRUNCATED"

\* C20: when the stream ends inside a record, after its type tag or part of
\* its payload or of the SEGMENT sub-records of a SEGMENT_HEADER record,
\* nextAllocationRecord returns end_of_stream, neither an error nor an
\* allocation, and thread stacks, frame table, tree, native chain table,
\* segment sets and generation are what they were before the record; every
\* later call returns end_of_stream as well.
C20_TruncatedRecordChangesNothing ==
    [][/\ (consumed /\ IsTruncated(consumedRecord)) =>
             /\ pc' = "idle"
             /\ result' = "end_of_stream"
             /\ returned' = returned
             /\ UNCHANGED <<d_stack_traces, d_frame_map, d_allocation_frames,
                            d_tree, d_native_frames, d_symbol_resolver>>
       /\ (stream # <<>> /\ IsTruncated(Last(stream))) =>
             /\ UNCHANGED <<stream, returned, d_stack_traces, d_frame_map,
                            d_allocation_frames, d_tree, d_native_frames,
                            d_symbol_resolver>>
             /\ result' \in {"none", "end_of_stream"}
             /\ pc' \in {"idle", "loop"}]_vars

C20_Witness ==
    /\ Len(stream) = 3
    /\ IsTruncated(Last(stream))
    /\ Last(stream).of = "SEGMENT_HEADER"
    /\ Last(stream).segments # <<>>
    /\ result = "end_of_stream"
    /\ stream[1].type = "SEGMENT_HEADER"
    /\ IsMemoryMapStart(stream[2])
    /\ d_symbol_resolver.segments[currentSegmentGeneration(d_symbol_resolver)] = <<>>

====
